---------------------------- MODULE Spec2Model ----------------------------
(***************************************************************************)
(* Model of src/main.py: the smart_poll_result tool of the Eternal AI MCP  *)
(* server (handle_smart_poll_result), one invocation of it, as a state     *)
(* machine whose steps are the coroutine's suspension points: the initial  *)
(* asyncio.sleep(30), each awaited client.get, each asyncio.sleep(15).     *)
(* Time is wall-clock seconds since the invocation began.  SpecNorm is     *)
(* parse_generate_response applied to a payload and to its own result;     *)
(* SpecPair is two invocations of the poller resumed in any order.         *)
(***************************************************************************)
EXTENDS Integers, Sequences, FiniteSets, TLC

(***************************************************************************)
(* Bounds of the model.  Network latencies and sleep overshoots are        *)
(* multiples of Tick seconds.                                              *)
(***************************************************************************)
Tick == 10
MaxLatencyTicks == 3
MaxOvershootTicks == 1

Latencies == {k * Tick : k \in 0..MaxLatencyTicks}
Overshoots == {k * Tick : k \in 0..MaxOvershootTicks}

(***************************************************************************)
(* Program constants (handle_smart_poll_result).                           *)
(***************************************************************************)
initial_delay == 30
max_duration == 120
poll_interval == 15

(***************************************************************************)
(* JSON / Python values.  A string is a sequence of one-character strings, *)
(* so that str.lower() is computed character by character.                 *)
(***************************************************************************)
Absent == [t |-> "absent", s |-> <<>>, n |-> 0]
Null == [t |-> "null", s |-> <<>>, n |-> 0]
JStr(s) == [t |-> "str", s |-> s, n |-> 0]
JInt(n) == [t |-> "int", s |-> <<>>, n |-> n]

s_empty == <<>>
s_success == <<"s","u","c","c","e","s","s">>
s_completed == <<"c","o","m","p","l","e","t","e","d">>
s_failed == <<"f","a","i","l","e","d">>
s_error == <<"e","r","r","o","r">>
s_pending == <<"p","e","n","d","i","n","g">>
s_processing == <<"p","r","o","c","e","s","s","i","n","g">>
s_SUCCESS == <<"S","U","C","C","E","S","S">>
s_Failed_padded == <<" ","F","a","i","l","e","d"," ">>
s_abc == <<"a","b","c">>
s_req == <<"r","e","q","-","1">>
s_req_remote == <<"r","e","q","-","9">>
s_url == <<"h","t","t","p","s",":","/","/","x","/","a",".","p","n","g">>
s_image == <<"i","m","a","g","e">>
s_key == <<"k","e","y">>
s_timeout_message == <<"T","a","s","k"," ","i","s"," ","s","t","i","l","l"," ",
                       "p","r","o","c","e","s","s","i","n","g",","," ",
                       "p","l","e","a","s","e"," ","c","a","l","l"," ",
                       "t","h","i","s"," ","t","o","o","l"," ","a","g","a","i","n">>

UpperChars == <<"A","B","C","D","E","F","G","H","I","J","K","L","M",
                "N","O","P","Q","R","S","T","U","V","W","X","Y","Z">>
LowerChars == <<"a","b","c","d","e","f","g","h","i","j","k","l","m",
                "n","o","p","q","r","s","t","u","v","w","x","y","z">>
DigitChars == <<"0","1","2","3","4","5","6","7","8","9">>

\* str.lower() on one character: only the upper-case letters change.
LowerChar(c) ==
    IF \E i \in DOMAIN UpperChars : UpperChars[i] = c
    THEN LowerChars[CHOOSE i \in DOMAIN UpperChars : UpperChars[i] = c]
    ELSE c

\* str.lower(): no trimming of whitespace.
Lower(s) == [i \in DOMAIN s |-> LowerChar(s[i])]

\* Decimal digits of a natural number, as str(int) prints them.
RECURSIVE Digits(_)
Digits(n) ==
    IF n < 10 THEN <<DigitChars[n + 1]>>
    ELSE Digits(n \div 10) \o <<DigitChars[(n % 10) + 1]>>

\* Python's str(): a str is itself, an int its digits, None is "None".
PyStr(v) ==
    CASE v.t = "str" -> v.s
      [] v.t = "int" -> Digits(v.n)
      [] v.t = "null" -> <<"N","o","n","e">>
      [] OTHER -> <<>>

\* Python truthiness of a str / None / missing value (`not x`).
Truthy(v) ==
    CASE v.t = "str" -> v.s # <<>>
      [] v.t = "int" -> v.n # 0
      [] OTHER -> FALSE

\* dict.get(key, default): the default only when the key is missing.
Get(v, default) == IF v.t = "absent" THEN default ELSE v

(***************************************************************************)
(* Response bodies.  A decoded JSON object is a record of the fields the   *)
(* program reads (and the nested `data` object of the second wire shape);  *)
(* `shape` tells an object from a non-object or undecodable body.          *)
(***************************************************************************)
NoInner == [status |-> Absent, progress |-> Absent, request_id |-> Absent,
            result_url |-> Absent, effect_type |-> Absent]
NoData == [t |-> "absent", o |-> NoInner]
DataObj(o) == [t |-> "obj", o |-> o]

Obj(st, pr, rid, url, eff, d) ==
    [shape |-> "object", status |-> st, progress |-> pr, request_id |-> rid,
     result_url |-> url, effect_type |-> eff, data |-> d, message |-> Absent]

EmptyObj == Obj(Absent, Absent, Absent, Absent, Absent, NoData)
NonObjectBody == [EmptyObj EXCEPT !.shape = "nonobject"]
MalformedBody == [EmptyObj EXCEPT !.shape = "malformed"]

WireStatuses ==
    {Absent, Null, JInt(1), JStr(s_empty), JStr(s_success), JStr(s_completed),
     JStr(s_failed), JStr(s_error), JStr(s_pending), JStr(s_processing),
     JStr(s_SUCCESS), JStr(s_Failed_padded)}

FlatBodies ==
    {Obj(st, Absent, Absent, Absent, Absent, NoData) : st \in WireStatuses}
    \cup {Obj(st, JInt(50), JStr(s_req_remote), JStr(s_url), JStr(s_image), NoData) :
            st \in {Absent, JStr(s_pending), JStr(s_success), JStr(s_failed)}}
    \cup {Obj(JStr(s_pending), pr, Absent, Absent, Absent, NoData) :
            pr \in {JInt(0), JInt(100), JStr(s_abc), Null}}

NestedBodies ==
    {Obj(JInt(1), Absent, JStr(s_req_remote), Absent, Absent,
         DataObj([NoInner EXCEPT !.status = st, !.progress = JInt(100)])) :
        st \in {JStr(s_success), JStr(s_failed), JStr(s_pending)}}

ObjectBodies == FlatBodies \cup NestedBodies
Bodies == ObjectBodies \cup {NonObjectBody, MalformedBody}

\* HTTP status codes for which response.raise_for_status() raises.
ErrorCodes == {404, 500}
\* httpx.RequestError subclasses raised by client.get.
TransportErrors == {"TimeoutException", "ConnectError"}

(***************************************************************************)
(* The value an invocation returns: one TextContent, either a plain text   *)
(* (a fixed message, possibly followed by an HTTP code or an exception) or *)
(* json.dumps of an object.                                                *)
(***************************************************************************)
NoOutcome == [kind |-> "none", text |-> "", code |-> 0, detail |-> "", obj |-> EmptyObj]
PlainText(t, c, d) == [kind |-> "text", text |-> t, code |-> c, detail |-> d, obj |-> EmptyObj]
JsonText(o) == [kind |-> "json", text |-> "", code |-> 0, detail |-> "", obj |-> o]

ApiKeyRequired ==
    PlainText("API key is required. Please set ETERNAL_AI_API_KEY environment variable.", 0, "")
RequestIdRequired == PlainText("Request ID is required", 0, "")
ApiError(code) == PlainText("API Error: ", code, "")
RequestErrorAfterTimeout(e) == PlainText("Request Error after timeout: ", 0, e)

VARIABLES
    module_api_key,    \* the module-level _api_key
    env_api_key,       \* os.environ.get("ETERNAL_AI_API_KEY"); Absent when unset
    arguments,         \* arguments.get("request_id"); Absent when missing
    pc,                \* where the coroutine is suspended, or how it ended
    now,               \* wall clock, seconds since the invocation began
    start_time,        \* the local start_time
    elapsed,           \* the local elapsed
    data,              \* the local data: the body decoded in the current iteration
                       \* (EmptyObj until line 353 assigns it; no line reads the
                       \* value a previous iteration left)
    polls,             \* client.get calls issued so far
    sleeps,            \* asyncio.sleep calls begun so far
    outcome,           \* the returned value, NoOutcome until a return
    returns,           \* number of return statements executed
    fault,             \* the exception that left the coroutine, "none" otherwise
    last,              \* the last adapter result: "response", "format",
                       \* "status_error" or the transport exception's class
    afterTransient,    \* the last adapter result came right after a transient error
    cancelledAtPolls,  \* polls at the moment the task was cancelled, -1 before
    allPending,        \* every adapter result so far was a body with status "pending"
    norm,              \* parse_generate_response applied to a payload, once and twice
    inv                \* the frames of concurrent invocations of the poller

vars == <<module_api_key, env_api_key, arguments, pc, now, start_time, elapsed,
          data, polls, sleeps, outcome, returns, fault, last, afterTransient,
          cancelledAtPolls, allPending, norm, inv>>

inputs == <<module_api_key, env_api_key, arguments>>

\* What the single invocation never touches.
others == <<norm, inv>>
\* The variables of the single invocation.
single == <<inputs, pc, now, start_time, elapsed, data, polls, sleeps, outcome,
            returns, fault, last, afterTransient, cancelledAtPolls, allPending>>

\* get_api_key(): the module-level key when truthy, else the environment's.
get_api_key == IF Truthy(module_api_key) THEN module_api_key ELSE env_api_key

\* `if not api_key` (line 321).
ValidApiKey(k) == Truthy(k)

ValidRequestId_NoneOnly(rid) == rid.t # "absent"
\* `if not request_id` (line 328).
ValidRequestId(rid) == Truthy(rid)

InitialSleep_Halved == initial_delay \div 2
\* asyncio.sleep(30).  start_time is read after it and every later time is
\* measured from start_time, so a longer initial sleep only shifts the clock.
InitialSleep == initial_delay

PollSleep_Immediate(over) == over
\* asyncio.sleep(poll_interval) lasts at least poll_interval.
PollSleep(over) == poll_interval + over

DeadlinePending_Strict(e) == e > max_duration
\* `if elapsed >= max_duration` after a non-terminal response (line 370).
DeadlinePending(e) == e >= max_duration

DeadlineError_Strict(e) == e > max_duration
DeadlineError_Always(e) == TRUE
\* `if elapsed >= max_duration` after a transient error (line 389).
DeadlineError(e) == e >= max_duration

ExceptClause_Broad(exc) ==
    IF exc = "HTTPStatusError" THEN "HTTPStatusError" ELSE "RequestError"
ExceptClause_StatusRetried(exc) ==
    IF exc \in TransportErrors \cup {"HTTPStatusError"} THEN "RequestError" ELSE "none"
\* Which except clause of the loop's try statement catches an exception.
ExceptClause(exc) ==
    CASE exc = "HTTPStatusError" -> "HTTPStatusError"
      [] exc \in TransportErrors -> "RequestError"
      [] OTHER -> "none"

IsTerminalStatus_SuccessOnly(status) == status = s_success \/ status = s_completed
\* The two status tests of the loop (lines 359 and 363).
IsTerminalStatus(status) ==
    \/ status = s_success \/ status = s_completed
    \/ status = s_failed \/ status = s_error

StatusOf_NoLower(body) == PyStr(Get(body.status, JStr(s_empty)))
\* status = str(data.get("status", "")).lower()
StatusOf(body) == Lower(PyStr(Get(body.status, JStr(s_empty))))

ProgressOf_Coerced(body) ==
    IF body.progress.t = "int" THEN body.progress ELSE JInt(0)
\* progress = data.get("progress", 0)
ProgressOf(body) == Get(body.progress, JInt(0))

timeout_response_NoDefaults(body, request_id) ==
    [shape |-> "object",
     request_id |-> Get(body.request_id, Null),
     status |-> Get(body.status, Null),
     progress |-> ProgressOf(body),
     result_url |-> Get(body.result_url, Null),
     effect_type |-> Get(body.effect_type, Null),
     data |-> NoData,
     message |-> JStr(s_timeout_message)]
\* The timeout_response dict.
timeout_response(body, request_id) ==
    [shape |-> "object",
     request_id |-> Get(body.request_id, request_id),
     status |-> Get(body.status, JStr(s_pending)),
     progress |-> ProgressOf(body),
     result_url |-> Get(body.result_url, JStr(s_empty)),
     effect_type |-> Get(body.effect_type, JStr(s_empty)),
     data |-> NoData,
     message |-> JStr(s_timeout_message)]

(***************************************************************************)
(* What one step of the coroutine leads to: a return, a suspension at a    *)
(* sleep, or an exception leaving the coroutine.                           *)
(***************************************************************************)
Ret(o) == [pc |-> "returned", outcome |-> o, fault |-> "none"]
Goto(p) == [pc |-> p, outcome |-> NoOutcome, fault |-> "none"]
Propagate(exc) == [pc |-> "raised", outcome |-> NoOutcome, fault |-> exc]

\* An exception raised inside the try block, at elapsed e.
Raise(exc, code, e) ==
    CASE ExceptClause(exc) = "HTTPStatusError" -> Ret(ApiError(code))
      [] ExceptClause(exc) = "RequestError" ->
            IF DeadlineError(e) THEN Ret(RequestErrorAfterTimeout(exc))
            ELSE Goto("sleep_retry")
      [] OTHER -> Propagate(exc)

Classify_ProgressCompletes(body, e, request_id) ==
    IF IsTerminalStatus(StatusOf(body)) \/ ProgressOf(body) = JInt(100)
    THEN Ret(JsonText(body))
    ELSE IF DeadlinePending(e) THEN Ret(JsonText(timeout_response(body, request_id)))
    ELSE Goto("sleep_poll")
Classify_DeadlineFirst(body, e, request_id) ==
    IF DeadlinePending(e) THEN Ret(JsonText(timeout_response(body, request_id)))
    ELSE IF IsTerminalStatus(StatusOf(body)) THEN Ret(JsonText(body))
    ELSE Goto("sleep_poll")
\* Lines 355-383: classify a decoded object.
Classify(body, e, request_id) ==
    IF IsTerminalStatus(StatusOf(body)) THEN Ret(JsonText(body))
    ELSE IF DeadlinePending(e) THEN Ret(JsonText(timeout_response(body, request_id)))
    ELSE Goto("sleep_poll")

\* Lines 352-383 on a 2xx response: decode, then classify.
OnResponse(body, e, request_id) ==
    CASE body.shape = "malformed" -> Raise("JSONDecodeError", 0, e)
      [] body.shape = "nonobject" -> Raise("AttributeError", 0, e)
      [] OTHER -> Classify(body, e, request_id)

(***************************************************************************)
(* The state machine.                                                      *)
(***************************************************************************)
\* <<_api_key, ETERNAL_AI_API_KEY, arguments.get("request_id")>>
InputCases ==
    {<<Null, Absent, JStr(s_req)>>, <<Null, JStr(s_empty), JStr(s_req)>>,
     <<Null, JStr(s_key), JStr(s_req)>>,
     <<JStr(s_key), Absent, JStr(s_empty)>>, <<Null, JStr(s_key), Absent>>,
     <<Null, Absent, Absent>>}

\* Nothing is being normalized; no concurrent invocation exists.
NormIdle == <<>>
NoInvocations == <<>>

\* The single invocation just before its first line runs, with inputs c.
AtStart(c) ==
    /\ module_api_key = c[1]
    /\ env_api_key = c[2]
    /\ arguments = c[3]
    /\ pc = "start"
    /\ now = 0
    /\ start_time = 0
    /\ elapsed = 0
    /\ data = EmptyObj
    /\ polls = 0
    /\ sleeps = 0
    /\ outcome = NoOutcome
    /\ returns = 0
    /\ fault = "none"
    /\ last = "none"
    /\ afterTransient = FALSE
    /\ cancelledAtPolls = -1
    /\ allPending = TRUE

Init ==
    /\ \E c \in InputCases : AtStart(c)
    /\ norm = NormIdle
    /\ inv = NoInvocations

\* The coroutine moves on as the step result r says.
Step(r) ==
    /\ pc' = r.pc
    /\ outcome' = r.outcome
    /\ fault' = r.fault
    /\ returns' = IF r.pc = "returned" THEN returns + 1 ELSE returns
    /\ sleeps' = IF r.pc \in {"initial_wait", "sleep_poll", "sleep_retry"}
                 THEN sleeps + 1 ELSE sleeps

\* Lines 320-337: validation, then the initial asyncio.sleep(30) begins.
Invoke ==
    /\ pc = "start"
    /\ Step(IF ~ValidApiKey(get_api_key) THEN Ret(ApiKeyRequired)
            ELSE IF ~ValidRequestId(arguments) THEN Ret(RequestIdRequired)
            ELSE Goto("initial_wait"))
    /\ UNCHANGED <<others, inputs, now, start_time, elapsed, data, polls, last,
                   afterTransient, cancelledAtPolls, allPending>>

\* Lines 337-348: the initial sleep ends, start_time is taken, the first
\* iteration computes elapsed and issues its client.get.
InitialWaitDone ==
    /\ pc = "initial_wait"
    /\ now' = now + InitialSleep
    /\ start_time' = now'
    /\ elapsed' = now' - start_time'
    /\ polls' = polls + 1
    /\ pc' = "in_flight"
    /\ UNCHANGED <<others, inputs, data, sleeps, outcome, returns, fault, last,
                   afterTransient, cancelledAtPolls, allPending>>

PollResponse_FreshElapsed(body, lat) ==
    /\ pc = "in_flight"
    /\ now' = now + lat
    /\ Step(OnResponse(body, now' - start_time, arguments))
    /\ data' = IF body.shape = "malformed" THEN data ELSE body
    /\ last' = IF body.shape = "object" THEN "response" ELSE "format"
    /\ afterTransient' = (last \in TransportErrors)
    /\ allPending' = (allPending /\ body.shape = "object" /\ body.status = JStr(s_pending))
    /\ UNCHANGED <<others, inputs, start_time, elapsed, polls, cancelledAtPolls>>
\* Lines 348-383: client.get answers 2xx with `body` after `lat` seconds.
PollResponse(body, lat) ==
    /\ pc = "in_flight"
    /\ now' = now + lat
    /\ Step(OnResponse(body, elapsed, arguments))
    /\ data' = IF body.shape = "malformed" THEN data ELSE body
    /\ last' = IF body.shape = "object" THEN "response" ELSE "format"
    /\ afterTransient' = (last \in TransportErrors)
    /\ allPending' = (allPending /\ body.shape = "object" /\ body.status = JStr(s_pending))
    /\ UNCHANGED <<others, inputs, start_time, elapsed, polls, cancelledAtPolls>>

\* Lines 352, 385-386: raise_for_status() raises HTTPStatusError.
PollStatusError(code, lat) ==
    /\ pc = "in_flight"
    /\ now' = now + lat
    /\ Step(Raise("HTTPStatusError", code, elapsed))
    /\ last' = "status_error"
    /\ afterTransient' = (last \in TransportErrors)
    /\ allPending' = FALSE
    /\ UNCHANGED <<others, inputs, start_time, elapsed, data, polls, cancelledAtPolls>>

\* Lines 348, 387-391: client.get raises a timeout or a connection error.
PollTransportError(err, lat) ==
    /\ pc = "in_flight"
    /\ now' = now + lat
    /\ Step(Raise(err, 0, elapsed))
    /\ last' = err
    /\ afterTransient' = (last \in TransportErrors)
    /\ allPending' = FALSE
    /\ UNCHANGED <<others, inputs, start_time, elapsed, data, polls, cancelledAtPolls>>

\* Lines 383/391, then 344-348: the sleep ends, the next iteration computes
\* elapsed and issues its client.get; its data is not decoded yet.
SleepDone(over) ==
    /\ pc \in {"sleep_poll", "sleep_retry"}
    /\ now' = now + PollSleep(over)
    /\ elapsed' = now' - start_time
    /\ polls' = polls + 1
    /\ pc' = "in_flight"
    /\ data' = EmptyObj
    /\ UNCHANGED <<others, inputs, start_time, sleeps, outcome, returns, fault,
                   last, afterTransient, cancelledAtPolls, allPending>>

\* The task is cancelled while suspended: CancelledError is raised at the
\* await.  The awaits of lines 348 and 383 are inside the try block, those of
\* lines 337 and 391 are not.
Cancel ==
    /\ pc \in {"initial_wait", "in_flight", "sleep_poll", "sleep_retry"}
    /\ cancelledAtPolls = -1
    /\ cancelledAtPolls' = polls
    /\ Step(IF pc \in {"in_flight", "sleep_poll"}
            THEN Raise("CancelledError", 0, elapsed)
            ELSE Propagate("CancelledError"))
    /\ UNCHANGED <<others, inputs, now, start_time, elapsed, data, polls, last,
                   afterTransient, allPending>>

Next ==
    \/ Invoke
    \/ InitialWaitDone
    \/ \E body \in Bodies, lat \in Latencies : PollResponse(body, lat)
    \/ \E code \in ErrorCodes, lat \in Latencies : PollStatusError(code, lat)
    \/ \E err \in TransportErrors, lat \in Latencies : PollTransportError(err, lat)
    \/ \E over \in Overshoots : SleepDone(over)
    \/ Cancel

Spec == Init /\ [][Next]_vars

\* The event loop resumes a suspended coroutine: every sleep ends and every
\* client.get ends with a response or an exception.
FairSpec == Spec /\ WF_vars(Next)

Terminated == pc \in {"returned", "raised"}

TypeOK ==
    /\ pc \in {"start", "initial_wait", "in_flight", "sleep_poll", "sleep_retry",
               "returned", "raised"}
    /\ polls \in Nat /\ sleeps \in Nat /\ returns \in 0..1
    /\ elapsed = 0 \/ elapsed >= poll_interval

(***************************************************************************)
(* parse_generate_response as a function of its argument.  A payload is a  *)
(* record of the keys the function reads or writes; `data` is absent, a    *)
(* dict (the nested format) or some other JSON value.                      *)
(***************************************************************************)
GenInner(rid, st, res, pr) ==
    [request_id |-> rid, status |-> st, result |-> res, progress |-> pr]
NoGenInner == GenInner(Absent, Absent, Absent, Absent)
GenPayload(rid, st, res, pr, code, d) ==
    [request_id |-> rid, status |-> st, result |-> res, progress |-> pr,
     status_code |-> code, data |-> d]
NoGenData == [t |-> "absent", o |-> NoGenInner]

GenDatas ==
    {NoGenData, [t |-> "other", o |-> NoGenInner]}
    \cup {[t |-> "obj", o |-> GenInner(rid, st, res, pr)] :
            rid \in {Absent, JStr(s_req_remote)}, st \in {Absent, JStr(s_success)},
            res \in {Absent, JStr(s_url)}, pr \in {Absent, JInt(100)}}

Payloads ==
    {GenPayload(rid, st, res, pr, Absent, d) :
        rid \in {Absent, JStr(s_req)}, st \in {Absent, JStr(s_pending), JInt(1)},
        res \in {Absent, JStr(s_url)}, pr \in {Absent, JInt(50)}, d \in GenDatas}

parse_generate_response_OuterFirst(p) ==
    IF p.data.t = "obj"
    THEN GenPayload(Get(p.request_id, Get(p.data.o.request_id, JStr(s_empty))),
                    Get(p.data.o.status, JStr(s_empty)),
                    Get(p.data.o.result, JStr(s_empty)),
                    Get(p.data.o.progress, JInt(0)),
                    Get(p.status, Null),
                    NoGenData)
    ELSE GenPayload(Get(p.request_id, JStr(s_empty)), Get(p.status, JStr(s_empty)),
                    Get(p.result, JStr(s_empty)), Get(p.progress, JInt(0)),
                    Absent, NoGenData)
\* Lines 439-462.  The returned dict has no "data" key, and a "status_code"
\* key only in the nested branch (data.get("status"): None when missing).
parse_generate_response(p) ==
    IF p.data.t = "obj"
    THEN GenPayload(Get(p.data.o.request_id, Get(p.request_id, JStr(s_empty))),
                    Get(p.data.o.status, JStr(s_empty)),
                    Get(p.data.o.result, JStr(s_empty)),
                    Get(p.data.o.progress, JInt(0)),
                    Get(p.status, Null),
                    NoGenData)
    ELSE GenPayload(Get(p.request_id, JStr(s_empty)), Get(p.status, JStr(s_empty)),
                    Get(p.result, JStr(s_empty)), Get(p.progress, JInt(0)),
                    Absent, NoGenData)

\* A payload to normalize is chosen; the single invocation stays at rest.
InitNorm ==
    /\ AtStart(<<Null, Absent, Absent>>)
    /\ inv = NoInvocations
    /\ \E p \in Payloads : norm = [step |-> 0, in |-> p, first |-> p, second |-> p]

\* result = parse_generate_response(data) (lines 249, 303).
NormalizeOnce ==
    /\ norm.step = 0
    /\ norm' = [norm EXCEPT !.step = 1, !.first = parse_generate_response(norm.in),
                            !.second = parse_generate_response(norm.in)]
    /\ UNCHANGED <<single, inv>>

\* The function applied to its own result.
NormalizeAgain ==
    /\ norm.step = 1
    /\ norm' = [norm EXCEPT !.step = 2, !.second = parse_generate_response(norm.first)]
    /\ UNCHANGED <<single, inv>>

NextNorm == NormalizeOnce \/ NormalizeAgain

SpecNorm == InitNorm /\ [][NextNorm]_vars

(***************************************************************************)
(* Concurrent invocations.  Each call of handle_smart_poll_result has its  *)
(* own frame (its locals and its own httpx.AsyncClient); the module-level  *)
(* _api_key and the environment are shared.  The event loop resumes one    *)
(* suspended coroutine at a time.  What the adapter does to an invocation  *)
(* is its script: the result of each client.get, its latency, and the      *)
(* overshoot of the sleep that follows.                                    *)
(***************************************************************************)
Invocations == {1, 2}

MaxLatency == MaxLatencyTicks * Tick
MaxOvershoot == MaxOvershootTicks * Tick

Answer(body, lat, over) ==
    [kind |-> "response", body |-> body, code |-> 0, err |-> "none",
     lat |-> lat, over |-> over]
StatusFailure(code, lat) ==
    [kind |-> "status_error", body |-> EmptyObj, code |-> code, err |-> "none",
     lat |-> lat, over |-> 0]
TransportFailure(err, lat, over) ==
    [kind |-> "transport", body |-> EmptyObj, code |-> 0, err |-> err,
     lat |-> lat, over |-> over]

PendingBody == Obj(JStr(s_pending), JInt(50), Absent, Absent, Absent, NoData)
SuccessBody == Obj(JStr(s_success), JInt(100), JStr(s_req), JStr(s_url), Absent, NoData)
FailedBody == Obj(JStr(s_failed), Absent, Absent, Absent, Absent, NoData)

Scripts ==
    {<<Answer(SuccessBody, 0, 0)>>,
     <<Answer(PendingBody, MaxLatency, 0), Answer(PendingBody, 0, MaxOvershoot),
       Answer(FailedBody, 0, 0)>>,
     <<TransportFailure("ConnectError", MaxLatency, 0), Answer(PendingBody, MaxLatency, 0),
       Answer(PendingBody, MaxLatency, 0), Answer(PendingBody, MaxLatency, 0)>>,
     <<Answer(PendingBody, 0, 0), StatusFailure(500, 0)>>,
     <<TransportFailure("TimeoutException", MaxLatency, 0),
       TransportFailure("TimeoutException", MaxLatency, 0),
       TransportFailure("TimeoutException", MaxLatency, 0),
       TransportFailure("TimeoutException", MaxLatency, 0)>>,
     <<Answer(MalformedBody, 0, 0)>>}

\* <<_api_key, ETERNAL_AI_API_KEY>>
PairCredentials == {<<Null, JStr(s_key)>>, <<Null, Absent>>}

\* Invocation i is called (i - 1) * Tick seconds after the first.
InvokedAt(i) == (i - 1) * Tick

\* The frame of a call with request_id rid, at wall-clock time `at`.
Frame(rid, script, at) ==
    [arguments |-> rid, pc |-> "start", now |-> at, start_time |-> 0, elapsed |-> 0,
     data |-> EmptyObj, polls |-> 0, outcome |-> NoOutcome, fault |-> "none",
     script |-> script, over |-> 0, given |-> script, invoked |-> at]

\* The frame moves on as the step result r says.
Land(f, r) == [f EXCEPT !.pc = r.pc, !.outcome = r.outcome, !.fault = r.fault]

\* The coroutine of frame f runs from its suspension point to the next one
\* (lines 320-391); `key` is what get_api_key() returns.
Resume(f, key) ==
    CASE f.pc = "start" ->
            Land(f, IF ~ValidApiKey(key) THEN Ret(ApiKeyRequired)
                    ELSE IF ~ValidRequestId(f.arguments) THEN Ret(RequestIdRequired)
                    ELSE Goto("initial_wait"))
      [] f.pc = "initial_wait" ->
            [f EXCEPT !.now = f.now + InitialSleep,
                      !.start_time = f.now + InitialSleep,
                      !.elapsed = 0,
                      !.polls = f.polls + 1,
                      !.pc = "in_flight"]
      [] f.pc = "in_flight" ->
            LET ev == Head(f.script)
                r == CASE ev.kind = "response" ->
                            OnResponse(ev.body, f.elapsed, f.arguments)
                       [] ev.kind = "status_error" ->
                            Raise("HTTPStatusError", ev.code, f.elapsed)
                       [] OTHER -> Raise(ev.err, 0, f.elapsed)
            IN  [Land(f, r) EXCEPT
                    !.now = f.now + ev.lat,
                    !.data = IF ev.kind = "response" /\ ev.body.shape # "malformed"
                             THEN ev.body ELSE f.data,
                    !.script = Tail(f.script),
                    !.over = ev.over]
      [] f.pc \in {"sleep_poll", "sleep_retry"} ->
            [f EXCEPT !.now = f.now + PollSleep(f.over),
                      !.elapsed = f.now + PollSleep(f.over) - f.start_time,
                      !.polls = f.polls + 1,
                      !.pc = "in_flight",
                      !.data = EmptyObj]
      [] OTHER -> f

\* The event loop can resume the coroutine of frame f.
Runnable(f) ==
    \/ f.pc \in {"start", "initial_wait", "sleep_poll", "sleep_retry"}
    \/ f.pc = "in_flight" /\ f.script # <<>>

InitPair ==
    /\ \E c \in PairCredentials : AtStart(<<c[1], c[2], Absent>>)
    /\ norm = NormIdle
    /\ \E s \in [Invocations -> Scripts] :
          inv = [i \in Invocations |-> Frame(JStr(s_req), s[i], InvokedAt(i))]

PairStep_SharedStartTime(i) ==
    /\ Runnable(inv[i])
    /\ inv' = [j \in Invocations |->
                 IF j = i THEN Resume(inv[i], get_api_key)
                 ELSE [inv[j] EXCEPT !.start_time = Resume(inv[i], get_api_key).start_time]]
    /\ UNCHANGED <<single, norm>>
\* The event loop resumes invocation i.  No line of the poller assigns
\* _api_key or the environment.
PairStep(i) ==
    /\ Runnable(inv[i])
    /\ inv' = [inv EXCEPT ![i] = Resume(inv[i], get_api_key)]
    /\ UNCHANGED <<single, norm>>

NextPair == \E i \in Invocations : PairStep(i)

SpecPair == InitPair /\ [][NextPair]_vars

(***************************************************************************)
(* Vocabulary of the properties.                                           *)
(***************************************************************************)
TerminalWireStatuses == {JStr(s_success), JStr(s_completed), JStr(s_failed), JStr(s_error)}
IsPreconditionFailure(o) == o \in {ApiKeyRequired, RequestIdRequired}
IsTimeoutPending(o) == o.kind = "json" /\ o.obj.message = JStr(s_timeout_message)
IsTransportErrorOutcome(o) ==
    \E err \in TransportErrors : o = RequestErrorAfterTimeout(err)
NotCancelled == cancelledAtPolls = -1
\* max_duration / poll_interval
NominalPolls == max_duration \div poll_interval
\* No network call and no sleep took longer than its nominal duration.
InstantRun == now = initial_delay + (sleeps - 1) * poll_interval

\* C1: when the credential or request_id is absent or empty, the invocation
\* returns a precondition-failure text having begun no sleep, issued no
\* network call and let no time pass.
C1_PreconditionFailure ==
    (pc # "start" /\ (~Truthy(get_api_key) \/ ~Truthy(arguments)))
        => /\ pc = "returned"
           /\ IsPreconditionFailure(outcome)
           /\ sleeps = 0 /\ polls = 0 /\ now = 0

C1_Witness ==
    /\ pc = "returned" /\ outcome = RequestIdRequired
    /\ Truthy(get_api_key) /\ arguments = JStr(s_empty)

\* C2: a poll answered with status success, completed, failed or error ends
\* the invocation at that iteration: the value returned is the polled body
\* unchanged (never an error text), and no sleep or poll follows it.
C2_TerminalReturnsPayload ==
    (last = "response" /\ data.status \in TerminalWireStatuses)
        => /\ pc = "returned"
           /\ outcome = JsonText(data)
           /\ returns = 1
           /\ sleeps = polls

C2_Witness ==
    /\ pc = "returned" /\ polls >= 2
    /\ last = "response" /\ data.status = JStr(s_failed)
    /\ outcome = JsonText(data)

\* C3 as stated: with every response pending, polls are spaced by at least
\* poll_interval, the invocation returns timeout-pending once elapsed reaches
\* max_duration, and the number of polls is within 1 of
\* max_duration / poll_interval.
C3_PollCountWithinOne ==
    (allPending /\ polls >= 1)
        => /\ elapsed >= (polls - 1) * poll_interval
           /\ pc = "returned" =>
                /\ IsTimeoutPending(outcome)
                /\ elapsed >= max_duration
                /\ polls >= NominalPolls - 1
                /\ polls <= NominalPolls + 1

\* C3 amended: with every response pending, polls are spaced by at least
\* poll_interval, the invocation sleeps on while elapsed is below
\* max_duration and returns timeout-pending at the first iteration that
\* begins with elapsed >= max_duration; the number of polls is at most
\* max_duration / poll_interval + 1, and exactly that when no network call
\* and no sleep takes extra time.
C3_PollCountAtMost ==
    (allPending /\ polls >= 1)
        => /\ elapsed >= (polls - 1) * poll_interval
           /\ pc \in {"sleep_poll", "sleep_retry"} => elapsed < max_duration
           /\ pc = "returned" =>
                /\ IsTimeoutPending(outcome)
                /\ elapsed >= max_duration
                /\ sleeps = polls
                /\ polls <= NominalPolls + 1
                /\ InstantRun => polls = NominalPolls + 1

C3_Witness ==
    /\ allPending /\ pc = "returned" /\ IsTimeoutPending(outcome)
    /\ polls < NominalPolls - 1

\* C4: a timeout or connection error met while elapsed < max_duration is
\* never the outcome: the poller begins a poll_interval sleep and polls
\* again, and when that next poll answers status "failed" the invocation
\* returns that body.
C4_TransientRetried ==
    /\ (last \in TransportErrors /\ elapsed < max_duration /\ pc # "in_flight"
            /\ NotCancelled)
          => (pc = "sleep_retry" /\ outcome = NoOutcome /\ sleeps = polls + 1)
    /\ IsTransportErrorOutcome(outcome) => elapsed >= max_duration
    /\ polls >= 1 => elapsed >= (polls - 1) * poll_interval
    /\ (afterTransient /\ last = "response" /\ data.status = JStr(s_failed))
          => (pc = "returned" /\ outcome = JsonText(data))

C4_Witness ==
    /\ afterTransient /\ last = "response" /\ data.status = JStr(s_failed)
    /\ pc = "returned" /\ outcome = JsonText(data)

\* C5: a response with a terminal status received in an iteration whose
\* elapsed is already >= max_duration yields the polled body, never the
\* timeout-pending outcome.
C5_TerminalBeforeDeadline ==
    (last = "response" /\ data.status \in TerminalWireStatuses
        /\ elapsed >= max_duration)
        => /\ pc = "returned"
           /\ outcome = JsonText(data)
           /\ ~IsTimeoutPending(outcome)

C5_Witness ==
    /\ pc = "returned" /\ elapsed >= max_duration
    /\ last = "response" /\ data.status = JStr(s_success)

\* C6: once the task is cancelled (during the initial wait, a poll_interval
\* sleep or a network call) the invocation ends with CancelledError leaving
\* the coroutine, which is none of the returned outcomes, and no network
\* call is issued after the cancellation.
C6_CancellationPropagates ==
    ~NotCancelled
        => /\ pc = "raised" /\ fault = "CancelledError"
           /\ outcome = NoOutcome /\ returns = 0
           /\ polls = cancelledAtPolls

C6_Witness ==
    /\ pc = "raised" /\ fault = "CancelledError"
    /\ polls >= 1 /\ sleeps = polls + 1

\* C7: an HTTP status error at any poll makes the invocation return the
\* "API Error" text at that iteration whatever elapsed is: no sleep and no
\* poll follows it.
C7_StatusErrorImmediate ==
    last = "status_error"
        => /\ pc = "returned"
           /\ \E code \in ErrorCodes : outcome = ApiError(code)
           /\ returns = 1
           /\ sleeps = polls

C7_Witness ==
    /\ last = "status_error" /\ pc = "returned"
    /\ polls >= 2 /\ elapsed < max_duration

\* C8: a timeout or connection error in an iteration whose elapsed is
\* >= max_duration makes the invocation return the error text wrapping that
\* exception, which is not the timeout-pending outcome; timeout-pending is
\* returned only when the last poll answered a non-terminal status.
C8_TransientAtDeadline ==
    /\ (last \in TransportErrors /\ elapsed >= max_duration /\ pc # "in_flight"
            /\ NotCancelled)
          => /\ pc = "returned"
             /\ outcome = RequestErrorAfterTimeout(last)
             /\ ~IsTimeoutPending(outcome)
    /\ IsTimeoutPending(outcome)
          => /\ last = "response"
             /\ data.status \notin TerminalWireStatuses
             /\ elapsed >= max_duration

C8_Witness ==
    /\ last \in TransportErrors /\ elapsed >= max_duration
    /\ pc = "returned" /\ outcome = RequestErrorAfterTimeout(last)

\* C9: every error met during polling, a malformed or non-object body
\* included, is mapped to a returned outcome; none leaves the poller as an
\* unhandled fault.
C9_NoFaultEscapes ==
    last = "format" => (pc = "returned" /\ outcome # NoOutcome /\ fault = "none")

\* C10: the invocation always ends, having returned at most one outcome and
\* exactly one unless an undecodable body or a cancellation ended it; every
\* iteration that does not end it advances elapsed by at least
\* poll_interval.
C10_Terminates ==
    /\ <>Terminated
    /\ [](pc = "raised" => (last = "format" \/ ~NotCancelled))
    /\ []((pc = "returned") <=> (returns = 1 /\ outcome # NoOutcome))
    /\ [](returns <= 1)
    /\ [][elapsed' # elapsed => elapsed' >= elapsed + poll_interval]_vars

C10_Witness ==
    /\ pc = "returned" /\ returns = 1
    /\ polls = NominalPolls + 1 /\ last \in TransportErrors

(***************************************************************************)
(* Status strings as the properties compare them.                          *)
(***************************************************************************)
TerminalStrings == {s_success, s_completed, s_failed, s_error}

\* a and b differ at most by the case of their letters.
EqualsIgnoringCase(a, b) ==
    /\ Len(a) = Len(b)
    /\ \A i \in DOMAIN a :
          \/ a[i] = b[i]
          \/ \E k \in DOMAIN UpperChars :
                {a[i], b[i]} = {UpperChars[k], LowerChars[k]}

RECURSIVE StripLeft(_)
StripLeft(s) == IF s # <<>> /\ Head(s) = " " THEN StripLeft(Tail(s)) ELSE s

RECURSIVE StripRight(_)
StripRight(s) ==
    IF s # <<>> /\ s[Len(s)] = " " THEN StripRight(SubSeq(s, 1, Len(s) - 1)) ELSE s

\* s without its leading and trailing blanks.
Strip(s) == StripRight(StripLeft(s))

TerminalIgnoringCase(v) ==
    v.t = "str" /\ \E t \in TerminalStrings : EqualsIgnoringCase(v.s, t)

TerminalIgnoringCaseAndBlanks(v) ==
    v.t = "str" /\ \E t \in TerminalStrings : EqualsIgnoringCase(Strip(v.s), t)

\* The poller goes on after the response in `data`: it sleeps before the
\* next poll, or at the deadline returns the timeout-pending outcome.
ContinuesOrTimesOut ==
    \/ pc = "sleep_poll" /\ outcome = NoOutcome /\ elapsed < max_duration
    \/ pc = "returned" /\ IsTimeoutPending(outcome) /\ elapsed >= max_duration

\* C11 as stated: a polled status equal to success, completed, failed or
\* error up to letter case and leading/trailing whitespace ends the
\* invocation with the polled body.
C11_CaseAndBlanksIgnored ==
    (last = "response" /\ TerminalIgnoringCaseAndBlanks(data.status))
        => (pc = "returned" /\ outcome = JsonText(data))

\* C11 amended: the status is lowercased but not trimmed.  A status equal to
\* a terminal one up to letter case ends the invocation with the polled
\* body; one that also carries leading or trailing blanks is non-terminal:
\* the poller sleeps and polls again, or returns timeout-pending at the
\* deadline.
C11_CaseIgnoredBlanksKept ==
    /\ (last = "response" /\ TerminalIgnoringCase(data.status))
          => (pc = "returned" /\ outcome = JsonText(data))
    /\ (last = "response" /\ NotCancelled
            /\ TerminalIgnoringCaseAndBlanks(data.status)
            /\ ~TerminalIgnoringCase(data.status))
          => ContinuesOrTimesOut

C11_Witness ==
    /\ pc = "returned" /\ last = "response"
    /\ data.status = JStr(s_SUCCESS) /\ outcome = JsonText(data)

\* C12: a response whose status is absent, empty or not a terminal one never
\* ends the invocation with its body, whatever its progress (100 included):
\* the poller sleeps and polls again, or at the deadline returns
\* timeout-pending.
C12_OnlyStatusTerminates ==
    (last = "response" /\ pc # "in_flight" /\ NotCancelled
        /\ ~TerminalIgnoringCase(data.status))
        => ContinuesOrTimesOut

C12_Witness ==
    /\ pc = "sleep_poll" /\ last = "response"
    /\ data.status = JStr(s_pending) /\ data.progress = JInt(100)

\* C13: a response of the nested shape {status: <int>, data: {...}} whose
\* inner status is success or failed ends the invocation with a terminal
\* outcome.
C13_NestedStatusRead ==
    (last = "response" /\ data.data.t = "obj"
        /\ data.data.o.status \in {JStr(s_success), JStr(s_failed)})
        => (pc = "returned" /\ outcome.kind = "json" /\ ~IsTimeoutPending(outcome))

\* C15 as stated: a non-numeric progress never makes the poller fail, and
\* the progress of the timeout-pending outcome is an integer in 0..100.
C15_ProgressCoerced ==
    /\ (last = "response" /\ data.progress.t \notin {"int", "absent"} /\ NotCancelled)
          => (pc # "raised" /\ fault = "none")
    /\ IsTimeoutPending(outcome)
          => (outcome.obj.progress.t = "int" /\ outcome.obj.progress.n \in 0..100)

\* C15 amended: a non-numeric progress never makes the poller fail, and it
\* is not coerced: the progress of the timeout-pending outcome is the polled
\* value as received, 0 only when the response has no progress.
C15_ProgressPassedThrough ==
    /\ (last = "response" /\ data.progress.t \notin {"int", "absent"} /\ NotCancelled)
          => (pc # "raised" /\ fault = "none")
    /\ IsTimeoutPending(outcome)
          => outcome.obj.progress =
                (IF data.progress = Absent THEN JInt(0) ELSE data.progress)

C15_Witness ==
    /\ pc = "returned" /\ IsTimeoutPending(outcome)
    /\ data.progress = JStr(s_abc) /\ outcome.obj.progress = JStr(s_abc)

\* Seconds since start_time at the moment of the current state.
RealElapsed == now - start_time

\* A non-terminal response has just been classified.
NonTerminalClassified ==
    /\ last = "response" /\ pc # "in_flight" /\ NotCancelled
    /\ ~TerminalIgnoringCase(data.status)

\* C17 as stated: when a non-terminal response is classified and the time
\* since the first poll attempt, the network call included, is
\* >= max_duration, the invocation returns timeout-pending in that iteration
\* and does not sleep again.
C17_DeadlineAtClassification ==
    (NonTerminalClassified /\ RealElapsed >= max_duration)
        => (pc = "returned" /\ IsTimeoutPending(outcome) /\ sleeps = polls)

\* C17 amended: the deadline is checked against elapsed as computed at the
\* start of the iteration, before the network call.  A non-terminal response
\* returns timeout-pending when that value is >= max_duration; when it is
\* below, the poller sleeps and polls again, even if the network call took
\* the time since the first poll past max_duration.
C17_DeadlineAtIterationStart ==
    NonTerminalClassified
        => /\ elapsed >= max_duration
                => (pc = "returned" /\ IsTimeoutPending(outcome) /\ sleeps = polls)
           /\ elapsed < max_duration
                => (pc = "sleep_poll" /\ outcome = NoOutcome /\ sleeps = polls + 1)

C17_Witness ==
    /\ NonTerminalClassified /\ pc = "sleep_poll"
    /\ elapsed < max_duration /\ RealElapsed >= max_duration

\* C18: the timeout-pending outcome has exactly the fields request_id,
\* status, progress, result_url, effect_type and message, read from the last
\* response: request_id defaults to the invocation's, status to "pending",
\* result_url and effect_type to the empty string.
C18_TimeoutPendingFields ==
    IsTimeoutPending(outcome)
        => outcome.obj =
            [shape |-> "object",
             request_id |-> IF data.request_id = Absent THEN arguments
                            ELSE data.request_id,
             status |-> IF data.status = Absent THEN JStr(s_pending) ELSE data.status,
             progress |-> IF data.progress = Absent THEN JInt(0) ELSE data.progress,
             result_url |-> IF data.result_url = Absent THEN JStr(s_empty)
                            ELSE data.result_url,
             effect_type |-> IF data.effect_type = Absent THEN JStr(s_empty)
                             ELSE data.effect_type,
             data |-> NoData,
             message |-> JStr(s_timeout_message)]

C18_Witness ==
    /\ pc = "returned" /\ IsTimeoutPending(outcome)
    /\ data.request_id = Absent /\ data.status = Absent
    /\ outcome.obj.request_id = JStr(s_req) /\ outcome.obj.status = JStr(s_pending)

\* C19: no network call is issued before the initial wait has lasted
\* initial_delay; a poll is issued only when no poll is in flight, and after
\* the first only from a sleep that has lasted poll_interval.
C19_StrictOrder ==
    /\ [](polls >= 1 => (now >= initial_delay /\ start_time >= initial_delay))
    /\ [](pc = "in_flight" => sleeps = polls)
    /\ [](pc \in {"sleep_poll", "sleep_retry"} => sleeps = polls + 1)
    /\ [][polls' # polls =>
            /\ polls' = polls + 1
            /\ pc # "in_flight" /\ pc' = "in_flight"
            /\ polls = 0 => (pc = "initial_wait" /\ now' >= now + initial_delay)
            /\ polls >= 1 => (pc \in {"sleep_poll", "sleep_retry"}
                               /\ now' >= now + poll_interval)]_vars

C19_Witness ==
    /\ pc = "in_flight" /\ polls = 3 /\ sleeps = 3
    /\ last = "ConnectError"

ValidInputs == Truthy(get_api_key) /\ Truthy(arguments)

\* C20: a validated invocation that runs to its end issues at least one poll
\* and never more than max_duration / poll_interval + 1: a sleep is begun
\* only with elapsed < max_duration, and the k-th poll is issued with
\* elapsed >= (k - 1) * poll_interval.
C20_PollCountBounded ==
    /\ polls <= NominalPolls + 1
    /\ pc \in {"sleep_poll", "sleep_retry"} => elapsed < max_duration
    /\ pc = "in_flight" => elapsed >= (polls - 1) * poll_interval
    /\ (Terminated /\ ValidInputs /\ NotCancelled) => polls >= 1

C20_Witness ==
    /\ pc = "returned" /\ polls = NominalPolls + 1
    /\ IsTimeoutPending(outcome) /\ afterTransient

\* The four fields both formats carry.
CanonicalFields(p) == <<p.request_id, p.status, p.result, p.progress>>

\* C14 as stated: normalize(normalize(x)) = normalize(x) for every input x,
\* nested inputs included, and normalizing a nested payload yields the inner
\* fields plus the outer status under a distinct key.
C14_Idempotent ==
    norm.step = 2
        => /\ norm.second = norm.first
           /\ norm.in.data.t = "obj"
                => /\ norm.first.status = Get(norm.in.data.o.status, JStr(s_empty))
                   /\ norm.first.status_code = Get(norm.in.status, Null)

\* C14 amended: normalizing a normalized payload leaves request_id, status,
\* result and progress unchanged; for a flat input the whole payload is
\* unchanged, for a nested input the second pass drops status_code.
\* Normalizing a nested payload yields the inner fields (request_id falling
\* back to the outer one, then ""; status and result to ""; progress to 0)
\* plus the outer status under status_code (null when there is none).
C14_IdempotentOnCanonicalFields ==
    norm.step = 2
        => /\ CanonicalFields(norm.second) = CanonicalFields(norm.first)
           /\ norm.second.data = NoGenData /\ norm.first.data = NoGenData
           /\ norm.second.status_code = Absent
           /\ norm.in.data.t # "obj" => norm.second = norm.first
           /\ norm.in.data.t = "obj"
                => /\ norm.first.request_id =
                        (IF norm.in.data.o.request_id # Absent
                         THEN norm.in.data.o.request_id
                         ELSE IF norm.in.request_id # Absent THEN norm.in.request_id
                         ELSE JStr(s_empty))
                   /\ norm.first.status = Get(norm.in.data.o.status, JStr(s_empty))
                   /\ norm.first.result = Get(norm.in.data.o.result, JStr(s_empty))
                   /\ norm.first.progress = Get(norm.in.data.o.progress, JInt(0))
                   /\ norm.first.status_code = Get(norm.in.status, Null)
                   /\ norm.first.status_code # Absent

C14_Witness ==
    /\ norm.step = 2 /\ norm.in.data.t = "obj"
    /\ norm.in.request_id = JStr(s_req)
    /\ norm.in.data.o.request_id = JStr(s_req_remote)
    /\ norm.first.request_id = JStr(s_req_remote)
    /\ norm.first.status_code = JInt(1) /\ norm.second.status_code = Absent

\* The frames an invocation goes through when it is the only one running.
RECURSIVE AloneStates(_, _)
AloneStates(f, key) ==
    {f} \cup (IF Runnable(f) THEN AloneStates(Resume(f, key), key) ELSE {})

\* The frame in which it ends.
RECURSIVE RunAlone(_, _)
RunAlone(f, key) == IF Runnable(f) THEN RunAlone(Resume(f, key), key) ELSE f

AsInvoked(f) == Frame(f.arguments, f.given, f.invoked)

\* C16: concurrent invocations, for the same request_id, are independent.
\* Under every interleaving each invocation goes through the frames (wait,
\* timer, polls) it goes through when run alone on the same adapter
\* responses and ends with the same outcome and poll count; a step of one
\* invocation changes no other invocation's frame, and the credential is
\* never modified.
C16_Independent ==
    /\ [](\A i \in Invocations :
            /\ inv[i] \in AloneStates(AsInvoked(inv[i]), get_api_key)
            /\ ~Runnable(inv[i]) =>
                  /\ inv[i].outcome = RunAlone(AsInvoked(inv[i]), get_api_key).outcome
                  /\ inv[i].fault = RunAlone(AsInvoked(inv[i]), get_api_key).fault
                  /\ inv[i].polls = RunAlone(AsInvoked(inv[i]), get_api_key).polls)
    /\ [][\A i \in Invocations :
            inv'[i] # inv[i] => \A j \in Invocations \ {i} : inv'[j] = inv[j]]_vars
    /\ [][module_api_key' = module_api_key /\ env_api_key' = env_api_key]_vars

C16_Witness ==
    /\ inv[1].arguments = inv[2].arguments
    /\ inv[2].pc = "returned" /\ inv[2].polls = 3
    /\ inv[2].outcome = JsonText(FailedBody)
    /\ inv[1].pc = "sleep_poll" /\ inv[1].polls = 3
    /\ inv[1].start_time # inv[2].start_time

=============================================================================
